---------------------------- MODULE Spec2Model ----------------------------
(***************************************************************************)
(* Model of sl_scraper.py: the season / team / team-stat scraping pipeline *)
(* and its CSV aggregation.                                                *)
(*                                                                         *)
(* Pages are modelled by what the selectors of the script find on them:    *)
(*   index page  : the sequence of 'ul.sub-current' blocks, each the       *)
(*                 sequence of its <a> tags [href, li];                    *)
(*   roster page : the sequence of 'a.team-card' cards [href, h4];         *)
(*   team page   : [names, wrappers, totals], the texts of the team-name   *)
(*                 containers, the 'div.team-stats-wrapper' blocks (the    *)
(*                 six divs find() looks for) and the total-stats rows.    *)
(* A python dict is a sequence of <<key, value>> pairs with distinct keys, *)
(* in insertion order.  A DataFrame and a CSV file are [columns, rows].    *)
(***************************************************************************)
EXTENDS Naturals, Sequences, FiniteSets, TLC

VARIABLES
    pc,              \* position of the main script
    rerun,           \* whether DATA_FOLDER held the output of an earlier run at start
    years_urls,      \* line 219: the seasons returned by scrape_years_urls
    i,               \* line 222: the loop counter of the season loop
    team_urls,       \* line 225: the teams returned by scrape_team_url
    all_teams_data,  \* line 229: the records collected for the current season
    dirs,            \* season sub-directories that exist under DATA_FOLDER
    files,           \* label -> content of DATA_FOLDER/<label>/team_stats_<label>.csv
    combined,        \* <<>> or <<content>> of DATA_FOLDER/combined_team_stats.csv
    error,           \* the uncaught exception that ended the run
    written,         \* files written by this run, in order
    read_log,        \* files read by the combine phase of this run, in order
    in_info,         \* the info page given to the stat extraction
    in_stats,        \* the stats page given to the stat extraction
    out_record       \* the record the stat extraction returned

vars == <<pc, rerun, years_urls, i, team_urls, all_teams_data, dirs, files,
          combined, error, written, read_log, in_info, in_stats, out_record>>

---------------------------------------------------------------------------
(* Bounds of the model *)

MaxBlocks == 3
MaxSeasons == 3
MaxTeams == 2
MaxWrappers == 2
MaxTotals == 1

---------------------------------------------------------------------------
(* Values *)

None == "None"          \* python None: what find() / select_one() return on no match
NaN == "NaN"            \* pandas missing value
Empty == ""             \* an empty CSV field

Range(s) == {s[j] : j \in 1..Len(s)}

SeqsUpTo(S, n) == UNION {[1..m -> S] : m \in 0..n}

\* bs4.Tag.__bool__ is True for every tag; only None is falsy (lines 172, 182, 193, 207)
Truthy(x) == x # None

---------------------------------------------------------------------------
(* python dict: stats_dict[stat_name] = stat_value *)

DictHas(d, k) == \E j \in 1..Len(d) : d[j][1] = k

DictGet(d, k) == d[CHOOSE j \in 1..Len(d) : d[j][1] = k][2]

DictKeys(d) == [j \in 1..Len(d) |-> d[j][1]]

\* a dict that keeps the value a key was first given
DictSetKeepFirst(d, k, v) ==
    IF DictHas(d, k) THEN d ELSE Append(d, <<k, v>>)

DictSet(d, k, v) ==
    IF DictHas(d, k)
    THEN [j \in 1..Len(d) |-> IF d[j][1] = k THEN <<k, v>> ELSE d[j]]
    ELSE Append(d, <<k, v>>)

---------------------------------------------------------------------------
(* scrape_team_data: the parsing of the info page and of the stats page *)

\* lines 144-150: text of the first matching container, None when there is none
ParseTeamName(page) ==
    IF Len(page.names) > 0 THEN page.names[1] ELSE None

Complete(label, value) == Truthy(label) /\ Truthy(value)

\* lines 170-199, one iteration of 'for position in team_position': the
\* assignments stats_dict[stat_name] = stat_value it performs, in order.  The
\* 'continue' of an incomplete pair ends the iteration.
WrapperWrites(w) ==
    IF ~Complete(w.position, w.position_value) THEN <<>>
    ELSE <<<<w.position, w.position_value>>>> \o
         (IF ~Complete(w.points, w.points_value) THEN <<>>
          ELSE <<<<w.points, w.points_value>>>> \o
               (IF ~Complete(w.games, w.games_value) THEN <<>>
                ELSE <<<<w.games, w.games_value>>>>))

\* lines 169-199
RECURSIVE WrappersWrites(_)
WrappersWrites(ws) ==
    IF ws = <<>> THEN <<>>
    ELSE WrapperWrites(Head(ws)) \o WrappersWrites(Tail(ws))

\* lines 203-213: the assignments of 'for stat in team_stats'
RECURSIVE TotalsWrites(_)
TotalsWrites(rows) ==
    IF rows = <<>> THEN <<>>
    ELSE (IF Complete(Head(rows).bold, Head(rows).text_right)
          THEN <<<<Head(rows).bold, Head(rows).text_right>>>> ELSE <<>>)
         \o TotalsWrites(Tail(rows))

\* lines 167-213: every assignment to stats_dict, in execution order; line 200
\* stores the team name after the wrapper loop and before the total-stats loop
Assignments(team_name, page) ==
    WrappersWrites(page.wrappers) \o <<<<"team", team_name>>>>
    \o TotalsWrites(page.totals)

RECURSIVE ApplyAll(_, _)
ApplyAll(d, writes) ==
    IF writes = <<>> THEN d
    ELSE ApplyAll(DictSet(d, Head(writes)[1], Head(writes)[2]), Tail(writes))

\* lines 165-215: the record built from the parsed stats page
ParseStats(team_name, page) == ApplyAll(<<>>, Assignments(team_name, page))

\* lines 142-215 with both responses bound
ParseTeamPages(info, stats) == ParseStats(ParseTeamName(info), stats)

---------------------------------------------------------------------------
(* The HTTP GET of each scraping function *)

\* What requests.get / raise_for_status do:
\*   "ok"               a 2xx response;
\*   "HTTPError"        requests.get returned a non-2xx response and
\*                      raise_for_status raised: response is bound to it;
\*   "Timeout", "RequestException"
\*                      requests.get itself raised: response is not assigned.
FetchOutcomes == {"ok", "HTTPError", "Timeout", "RequestException"}

\* lines 54-62, 106-114, 132-140, 154-162: the local variable 'response' after
\* the try statement; <<>> is the unbound local, prev its value before the try.
Bind(prev, outcome, page) ==
    IF outcome \in {"ok", "HTTPError"} THEN <<page>> ELSE prev

Raise(type, fn) == [raised |-> TRUE, type |-> type, fn |-> fn, value |-> <<>>]

Return(v) == [raised |-> FALSE, type |-> "", fn |-> "", value |-> v]

\* line 20, lines 76 and 123: urljoin(SL_BASE_URL, href) for the rooted hrefs of the site
SL_HOST == "https://www.slgr.gr"

UrlJoin(href) == [host |-> SL_HOST, path |-> href]

---------------------------------------------------------------------------
(* scrape_years_urls *)

\* lines 73-78: a_tag['href'] raises KeyError on a missing attribute,
\* a_tag.find('li').get_text raises AttributeError on a missing <li>
RECURSIVE YearsLoop(_, _)
YearsLoop(acc, anchors) ==
    IF anchors = <<>> THEN Return(acc)
    ELSE LET a == Head(anchors)
         IN  IF a.href = None THEN Raise("KeyError", "scrape_years_urls")
             ELSE IF a.li = None THEN Raise("AttributeError", "scrape_years_urls")
             ELSE YearsLoop(Append(acc, [year |-> a.li, url |-> UrlJoin(a.href)]),
                            Tail(anchors))

\* line 70: sub_current_ul[-2]
SelectBlock(blocks) == blocks[Len(blocks) - 1]

\* lines 64-81
ParseYears(blocks) ==
    IF Len(blocks) < 2 THEN Raise("IndexError", "scrape_years_urls")
    ELSE YearsLoop(<<>>, SelectBlock(blocks))

\* lines 54-81
scrape_years_urls(outcome, page) ==
    LET response == Bind(<<>>, outcome, page)
    IN  IF response = <<>> THEN Raise("UnboundLocalError", "scrape_years_urls")
        ELSE ParseYears(response[1])

---------------------------------------------------------------------------
(* scrape_team_url *)

\* lines 121-127
RECURSIVE CardsLoop(_, _)
CardsLoop(acc, cards) ==
    IF cards = <<>> THEN Return(acc)
    ELSE LET c == Head(cards)
         IN  IF c.href = None THEN Raise("KeyError", "scrape_team_url")
             ELSE IF c.h4 = None THEN Raise("AttributeError", "scrape_team_url")
             ELSE CardsLoop(Append(acc, [name |-> c.h4, url |-> UrlJoin(c.href)]),
                            Tail(cards))

\* lines 106-129
scrape_team_url(outcome, page) ==
    LET response == Bind(<<>>, outcome, page)
    IN  IF response = <<>> THEN Raise("UnboundLocalError", "scrape_team_url")
        ELSE CardsLoop(<<>>, response[1])

---------------------------------------------------------------------------
(* scrape_team_data *)

\* lines 132-215: o1, p1 the info-page fetch, o2, p2 the stats-page fetch.
\* After a stats fetch that raised inside requests.get, 'response' still holds
\* the info-page response, which line 164 parses as the stats page.
scrape_team_data(o1, p1, o2, p2) ==
    LET r1 == Bind(<<>>, o1, p1)
    IN  IF r1 = <<>> THEN Raise("UnboundLocalError", "scrape_team_data")
        ELSE LET team_name == ParseTeamName(r1[1])
                 r2 == Bind(r1, o2, p2)
             IN  Return(ParseStats(team_name, r2[1]))

---------------------------------------------------------------------------
(* pandas: DataFrame, drop_duplicates, to_csv, read_csv, concat *)

\* the elements of 'more' that are not in 'cols', appended in order
RECURSIVE AddColumns(_, _)
AddColumns(cols, more) ==
    IF more = <<>> THEN cols
    ELSE AddColumns(IF Head(more) \in Range(cols) THEN cols
                    ELSE Append(cols, Head(more)),
                    Tail(more))

RECURSIVE RecordColumns(_, _)
RecordColumns(cols, recs) ==
    IF recs = <<>> THEN cols
    ELSE RecordColumns(AddColumns(cols, DictKeys(Head(recs))), Tail(recs))

\* line 236: pd.DataFrame(list of dicts): the columns are the union of the keys
\* in order of first appearance, a key a record lacks is NaN in its row
DataFrame(recs) ==
    LET cols == RecordColumns(<<>>, recs)
    IN  [columns |-> cols,
         rows |-> [j \in 1..Len(recs) |->
                     [c \in Range(cols) |->
                        IF DictHas(recs[j], c) THEN DictGet(recs[j], c) ELSE NaN]]]

\* DataFrame.drop_duplicates(): a NEW frame keeping the first of equal rows
RECURSIVE FirstOccurrences(_, _)
FirstOccurrences(kept, rows) ==
    IF rows = <<>> THEN kept
    ELSE FirstOccurrences(IF Head(rows) \in Range(kept) THEN kept
                          ELSE Append(kept, Head(rows)),
                          Tail(rows))

drop_duplicates(df) ==
    [columns |-> df.columns, rows |-> FirstOccurrences(<<>>, df.rows)]

\* lines 236-237: 'df.drop_duplicates()' is an expression statement: the frame
\* it returns is dropped and df stays the frame of line 236
SeasonFrame(recs) ==
    LET df == DataFrame(recs)
        dropped == drop_duplicates(df)
    IN  df

\* DataFrame.to_csv(index=False): a header line and one line per row; None and
\* NaN are written as empty fields
CsvField(cell) == IF cell \in {None, NaN} THEN Empty ELSE cell

to_csv(df) ==
    [header |-> df.columns,
     rows |-> [j \in 1..Len(df.rows) |->
                 [c \in Range(df.columns) |-> CsvField(df.rows[j][c])]]]

\* pd.read_csv raises EmptyDataError on a file with no columns: the file
\* to_csv writes for a frame without columns is one empty line
Readable(file) == file.header # <<>>

\* pd.read_csv: an empty field is NaN; a field that is text stays as it is
\* (a column of numerals would be read as numbers: the value texts of the
\* pipeline pages are not numerals)
read_csv(file) ==
    [columns |-> file.header,
     rows |-> [j \in 1..Len(file.rows) |->
                 [c \in Range(file.header) |->
                    IF file.rows[j][c] = Empty THEN NaN ELSE file.rows[j][c]]]]

RECURSIVE FrameColumns(_, _)
FrameColumns(cols, dfs) ==
    IF dfs = <<>> THEN cols
    ELSE FrameColumns(AddColumns(cols, Head(dfs).columns), Tail(dfs))

RECURSIVE FrameRows(_, _)
FrameRows(cols, dfs) ==
    IF dfs = <<>> THEN <<>>
    ELSE LET df == Head(dfs)
         IN  [j \in 1..Len(df.rows) |->
                [c \in Range(cols) |->
                   IF c \in Range(df.columns) THEN df.rows[j][c] ELSE NaN]]
             \o FrameRows(cols, Tail(dfs))

\* line 266: pd.concat(dataframes, ignore_index=True) of a non-empty list:
\* the rows in list order, the columns the union of the frames' columns
concat(dfs) ==
    LET cols == FrameColumns(<<>>, dfs)
    IN  [columns |-> cols, rows |-> FrameRows(cols, dfs)]

---------------------------------------------------------------------------
(* The pages the site may serve *)

\* the season labels of the navigation list, newest first
SeasonLabels == <<"2024-2025", "2023-2024", "2022-2023", "2021-2022", "2020-2021">>

\* the j-th <a> of the season navigation block: its href attribute and its
\* <li> text, either of which the markup may lack
Anchors(j) ==
    {[href |-> "/en/teams/", li |-> SeasonLabels[j]],
     [href |-> None, li |-> SeasonLabels[j]],
     [href |-> "/en/teams/", li |-> None]}

Blocks ==
    UNION {{b \in [1..n -> UNION {Anchors(j) : j \in 1..n}] :
              \A j \in 1..n : b[j] \in Anchors(j)} : n \in 0..MaxSeasons}

\* another 'ul.sub-current' list of the page, which is not the season navigation
DecoyBlock == <<[href |-> "/en/schedule/", li |-> "menu"]>>

\* index pages with up to MaxBlocks 'ul.sub-current' blocks
IndexPages ==
    {<<>>} \cup
    {[j \in 1..n |-> IF j = k THEN b ELSE DecoyBlock] :
        n \in 1..MaxBlocks, k \in 1..MaxBlocks, b \in Blocks}

\* an 'a.team-card': its href attribute and its <h4> text
Cards ==
    {[href |-> "/en/team/", h4 |-> "A.E.K."],
     [href |-> None, h4 |-> "A.E.K."],
     [href |-> "/en/team/", h4 |-> None]}

RosterPages == SeqsUpTo(Cards, MaxTeams)

Wrapper(pl, pv, ql, qv, gl, gv) ==
    [position |-> pl, position_value |-> pv, points |-> ql, points_value |-> qv,
     games |-> gl, games_value |-> gv]

Row(l, v) == [bold |-> l, text_right |-> v]

TeamPage(n, w, t) == [names |-> n, wrappers |-> w, totals |-> t]

\* a page without any of the selected elements
EmptyPage == TeamPage(<<>>, <<>>, <<>>)

\* the team pages of the pipeline: an info page, which names the team, and the
\* stats pages, with or without stat rows
NamePage == TeamPage(<<"A.E.K.">>, <<>>, <<>>)

StatsPage ==
    TeamPage(<<>>,
             <<Wrapper("position", "3rd", "points", "42 pts", "games", "30 played")>>,
             <<Row("team", "Total"), Row("season", "All")>>)

PipelineInfoPages == {NamePage}

PipelineStatsPages == {EmptyPage, StatsPage}

---------------------------------------------------------------------------
(* DATA_FOLDER at the start of a run *)

CombinedName == "combined_team_stats.csv"

FreshFolder == [dirs |-> {}, files |-> <<>>, combined |-> <<>>]

\* what a complete earlier run over the seasons <<2024-2025, 2023-2024>> with
\* one team left behind: one season table and the combined table made from it
PriorTable ==
    to_csv(DataFrame(<<DictSet(ParseTeamPages(NamePage, StatsPage),
                               "season", SeasonLabels[2])>>))

PriorFolder ==
    [dirs |-> {SeasonLabels[2]},
     files |-> (SeasonLabels[2] :> PriorTable),
     combined |-> <<to_csv(concat(<<read_csv(PriorTable)>>))>>]

\* a run over the fresh folder can end with the folder PriorFolder
PriorFolderLeft ==
    /\ ~rerun
    /\ pc = "done"
    /\ dirs = PriorFolder.dirs
    /\ files = PriorFolder.files
    /\ combined = PriorFolder.combined

---------------------------------------------------------------------------
(* The main script *)

NoError == [type |-> "", fn |-> "", fetches |-> <<>>]

\* lines 26-27 and the state of a fresh process
Init ==
    /\ pc = "start"
    /\ \E folder \in {FreshFolder, PriorFolder} :
         /\ dirs = folder.dirs
         /\ files = folder.files
         /\ combined = folder.combined
         /\ rerun = (folder = PriorFolder)
    /\ years_urls = <<>>
    /\ i = 1
    /\ team_urls = <<>>
    /\ all_teams_data = <<>>
    /\ error = NoError
    /\ written = <<>>
    /\ read_log = <<>>
    /\ in_info = EmptyPage
    /\ in_stats = EmptyPage
    /\ out_record = <<>>

\* an uncaught exception ends the process; fetches are the outcomes of the
\* requests.get calls of the function that raised
Crash(r, fetches) ==
    /\ pc' = "crashed"
    /\ error' = [type |-> r.type, fn |-> r.fn, fetches |-> fetches]

\* line 219
ScrapeYearsUrls ==
    /\ pc = "start"
    /\ \E o \in FetchOutcomes, page \in IndexPages :
         LET r == scrape_years_urls(o, page)
         IN  IF r.raised
             THEN Crash(r, <<o>>) /\ UNCHANGED years_urls
             ELSE /\ years_urls' = r.value
                  /\ pc' = "loop"
                  /\ UNCHANGED error
    /\ i' = 1
    /\ UNCHANGED <<rerun, team_urls, all_teams_data, dirs, files, combined,
                   written, read_log, in_info, in_stats, out_record>>

\* line 224: the body of the season loop is not run when i = 1
\* (a loop that also passes over the second season)
SkippedUpToSecond(k) == k <= 2

Skipped(k) == k = 1

\* lines 223-224, 244: an iteration whose body is skipped
SkipSeason ==
    /\ pc = "loop"
    /\ i <= Len(years_urls)
    /\ Skipped(i)
    /\ i' = i + 1
    /\ UNCHANGED <<pc, rerun, years_urls, team_urls, all_teams_data, dirs, files,
                   combined, error, written, read_log,
                   in_info, in_stats, out_record>>

\* lines 225-229: scrape_team_url, then the season folder, then the empty list
BeginSeason ==
    /\ pc = "loop"
    /\ i <= Len(years_urls)
    /\ ~Skipped(i)
    /\ \E o \in FetchOutcomes, page \in RosterPages :
         LET r == scrape_team_url(o, page)
         IN  IF r.raised
             THEN Crash(r, <<o>>) /\ UNCHANGED <<team_urls, all_teams_data, dirs>>
             ELSE /\ team_urls' = r.value
                  /\ dirs' = dirs \cup {years_urls[i].year}
                  /\ all_teams_data' = <<>>
                  /\ pc' = "teams"
                  /\ UNCHANGED error
    /\ UNCHANGED <<rerun, years_urls, i, files, combined, written, read_log,
                   in_info, in_stats, out_record>>

\* line 230: the team loop has consumed every entry of team_urls
\* (a team loop left after its first record)
SeasonCompleteEarly == Len(all_teams_data) >= 1 \/ Len(team_urls) = 0

SeasonComplete == Len(all_teams_data) = Len(team_urls)

\* lines 230-233: one iteration of the team loop
ScrapeTeam ==
    /\ pc = "teams"
    /\ ~SeasonComplete
    /\ \E o1 \in FetchOutcomes, p1 \in PipelineInfoPages,
          o2 \in FetchOutcomes, p2 \in PipelineStatsPages :
         LET r == scrape_team_data(o1, p1, o2, p2)
         IN  IF r.raised
             THEN Crash(r, <<o1>>) /\ UNCHANGED all_teams_data
             ELSE /\ all_teams_data' =
                       Append(all_teams_data,
                              DictSet(r.value, "season", years_urls[i].year))
                  /\ UNCHANGED <<pc, error>>
    /\ UNCHANGED <<rerun, years_urls, i, team_urls, dirs, files, combined,
                   written, read_log, in_info, in_stats, out_record>>

SeasonEntry(k) ==
    [kind |-> "season", index |-> k, label |-> years_urls[k].year,
     teams |-> Len(team_urls), records |-> Len(all_teams_data)]

CombinedEntry ==
    [kind |-> "combined", index |-> 0, label |-> CombinedName,
     teams |-> 0, records |-> 0]

\* lines 236-244: the season table is written and the loop counter advances
WriteSeason ==
    /\ pc = "teams"
    /\ SeasonComplete
    /\ files' = (years_urls[i].year :> to_csv(SeasonFrame(all_teams_data))) @@ files
    /\ written' = Append(written, SeasonEntry(i))
    /\ i' = i + 1
    /\ pc' = "loop"
    /\ UNCHANGED <<rerun, years_urls, team_urls, all_teams_data, dirs, combined,
                   error, read_log, in_info, in_stats, out_record>>

\* line 223: the season loop ends
EndSeasons ==
    /\ pc = "loop"
    /\ i > Len(years_urls)
    /\ pc' = "combine"
    /\ UNCHANGED <<rerun, years_urls, i, team_urls, all_teams_data, dirs, files,
                   combined, error, written, read_log,
                   in_info, in_stats, out_record>>

\* the orders in which os.listdir may return the entries of a directory
Orderings(S) ==
    {s \in [1..Cardinality(S) -> S] : \A a, b \in DOMAIN s : s[a] = s[b] => a = b}

\* lines 250-257 with the combined file, which lies in DATA_FOLDER itself, listed too
CombineInputsWithRoot(order) ==
    SelectSeq(order, LAMBDA l : l \in DOMAIN files)
    \o (IF combined # <<>> THEN <<CombinedName>> ELSE <<>>)

\* lines 250-257: the .csv files of the directories of DATA_FOLDER, in listing
\* order; an entry of DATA_FOLDER that is no directory is passed over
CombineInputs(order) == SelectSeq(order, LAMBDA l : l \in DOMAIN files)

FileAt(path) == IF path = CombinedName THEN combined[1] ELSE files[path]

\* lines 247-274
Combine ==
    /\ pc = "combine"
    /\ \E order \in Orderings(dirs) :
         LET inputs == CombineInputs(order)
             unreadable == {j \in 1..Len(inputs) : ~Readable(FileAt(inputs[j]))}
             stop == IF unreadable = {} THEN Len(inputs)
                     ELSE CHOOSE j \in unreadable : \A k \in unreadable : j <= k
         IN  /\ read_log' = SubSeq(inputs, 1, stop)
             /\ IF unreadable # {}
                THEN Crash(Raise("EmptyDataError", "combine"), <<>>)
                     /\ UNCHANGED <<combined, written>>
                ELSE IF inputs = <<>>
                THEN Crash(Raise("ValueError", "combine"), <<>>)
                     /\ UNCHANGED <<combined, written>>
                ELSE /\ combined' =
                          <<to_csv(concat([j \in 1..Len(inputs) |->
                                             read_csv(FileAt(inputs[j]))]))>>
                     /\ written' = Append(written, CombinedEntry)
                     /\ pc' = "done"
                     /\ UNCHANGED error
    /\ UNCHANGED <<rerun, years_urls, i, team_urls, all_teams_data, dirs, files,
                   in_info, in_stats, out_record>>

---------------------------------------------------------------------------
(* The stat extraction on its own: scrape_team_data's parsing of two pages *)

\* the text of every value element of a stats page, by its place on the page
WrapperValues ==
    << <<"1", "2", "3">>, <<"4", "5", "6">>, <<"7", "8", "9">>,
       <<"10", "11", "12">> >>

TotalValues == <<"21", "22", "23", "24">>

\* the k-th wrapper of a page: each of its three pairs complete or lacking one
\* half, with label texts that may repeat and may be 'team'
Wrappers(k) ==
    {Wrapper(p[1], p[2], q[1], q[2], g[1], g[2]) :
        p \in {<<"position", WrapperValues[k][1]>>, <<"team", WrapperValues[k][1]>>,
               <<"position", None>>},
        q \in {<<"points", WrapperValues[k][2]>>, <<"points", None>>,
               <<None, WrapperValues[k][2]>>},
        g \in {<<"games", WrapperValues[k][3]>>, <<"position", WrapperValues[k][3]>>,
               <<"games", None>>}}

TotalRows(k) ==
    {Row("points", TotalValues[k]), Row("team", TotalValues[k]), Row("goals", None)}

WrapperLists ==
    UNION {{ws \in [1..n -> UNION {Wrappers(k) : k \in 1..n}] :
              \A k \in 1..n : ws[k] \in Wrappers(k)} : n \in 0..MaxWrappers}

TotalLists ==
    UNION {{ts \in [1..n -> UNION {TotalRows(k) : k \in 1..n}] :
              \A k \in 1..n : ts[k] \in TotalRows(k)} : n \in 0..MaxTotals}

ExtractInfoPages == {EmptyPage, TeamPage(<<"O.F.I.", "A.E.K.">>, <<>>, <<>>)}

ExtractStatsPages == {TeamPage(<<>>, ws, ts) : ws \in WrapperLists, ts \in TotalLists}

InitExtract ==
    /\ pc = "extract"
    /\ in_info \in ExtractInfoPages
    /\ in_stats \in ExtractStatsPages
    /\ out_record = <<>>
    /\ rerun = FALSE
    /\ years_urls = <<>>
    /\ i = 1
    /\ team_urls = <<>>
    /\ all_teams_data = <<>>
    /\ dirs = {}
    /\ files = <<>>
    /\ combined = <<>>
    /\ error = NoError
    /\ written = <<>>
    /\ read_log = <<>>

\* lines 142-215: both pages parsed, the record returned
Extract ==
    /\ pc = "extract"
    /\ out_record' = ParseTeamPages(in_info, in_stats)
    /\ pc' = "extracted"
    /\ UNCHANGED <<rerun, years_urls, i, team_urls, all_teams_data, dirs, files,
                   combined, error, written, read_log, in_info, in_stats>>

NextExtract == Extract

SpecExtract == InitExtract /\ [][NextExtract]_vars

---------------------------------------------------------------------------
Next ==
    \/ ScrapeYearsUrls
    \/ SkipSeason
    \/ BeginSeason
    \/ ScrapeTeam
    \/ WriteSeason
    \/ EndSeasons
    \/ Combine

Spec == Init /\ [][Next]_vars

---------------------------------------------------------------------------
(* Properties of the stat extraction *)

\* the labels of the complete pairs and rows of a stats page, whatever precedes them
PairLabels(w) ==
    {p[1] : p \in {q \in {<<w.position, w.position_value>>,
                          <<w.points, w.points_value>>,
                          <<w.games, w.games_value>>} : Complete(q[1], q[2])}}

CompleteLabels(page) ==
    UNION {PairLabels(w) : w \in Range(page.wrappers)}
    \cup {r.bold : r \in {t \in Range(page.totals) : Complete(t.bold, t.text_right)}}

KeySet(d) == Range(DictKeys(d))

\* a wrapper whose points pair has its label and lacks its value element, the
\* position pair and the games pair being complete
PointsValueMissing(w) ==
    /\ Complete(w.position, w.position_value)
    /\ Truthy(w.points) /\ ~Truthy(w.points_value)
    /\ Complete(w.games, w.games_value)

\* C1: for a stats page with a wrapper whose points pair lacks its value, the
\* returned record holds every other key found on the page (the label of every
\* complete pair and of every complete total-stats row, and 'team') and no key
\* besides: the missing half leaves out that pair only, not the pairs after it.
C1_MissingHalfSkipsOnlyThatPair ==
    (pc = "extracted" /\ \E w \in Range(in_stats.wrappers) : PointsValueMissing(w))
        => KeySet(out_record) = CompleteLabels(in_stats) \cup {"team"}

Occurrences(writes, k) == {j \in 1..Len(writes) : writes[j][1] = k}

LastValue(writes, k) ==
    writes[CHOOSE j \in Occurrences(writes, k) :
             \A m \in Occurrences(writes, k) : m <= j][2]

LastWriteWins(d, writes) ==
    \A k \in {writes[j][1] : j \in 1..Len(writes)} :
        Cardinality(Occurrences(writes, k)) > 1 =>
            /\ Cardinality(Occurrences(d, k)) = 1
            /\ DictGet(d, k) = LastValue(writes, k)

\* the label/value pairs taken from the stats page, in extraction order
StatPairs(page) == WrappersWrites(page.wrappers) \o TotalsWrites(page.totals)

\* C8 as stated: a label extracted more than once from the stats page (wrapper
\* pairs, then total-stats rows) has one entry in the record, with the value
\* extracted last.
C8_LastExtractedPairWins ==
    pc = "extracted" => LastWriteWins(out_record, StatPairs(in_stats))

\* C8 amended: a key assigned more than once has one entry in the record, with
\* the value assigned last, where the assignments are the wrapper pairs, then
\* the team name under the key 'team', then the total-stats rows.
C8_LastAssignmentWins ==
    pc = "extracted" =>
        LastWriteWins(out_record, Assignments(ParseTeamName(in_info), in_stats))

\* a label is extracted in two wrappers and again in a total-stats row
C8_Witness ==
    /\ pc = "extracted"
    /\ \E k \in KeySet(out_record) :
         /\ Cardinality(Occurrences(WrappersWrites(in_stats.wrappers), k)) >= 2
         /\ Cardinality(Occurrences(TotalsWrites(in_stats.totals), k)) >= 1
         /\ k # "team"

---------------------------------------------------------------------------
(* Properties of the main script *)

SeasonEntries == SelectSeq(written, LAMBDA e : e.kind = "season")

FetchFailed(o) == o # "ok"

\* C5: after a failed GET the function still parses a page: no run ends with
\* the unbound 'response' of a failed fetch.
C5_FetchFailureStillParses ==
    (pc = "crashed" /\ \E j \in 1..Len(error.fetches) : FetchFailed(error.fetches[j]))
        => error.type # "UnboundLocalError"

\* C6: a teams-index page with fewer than two 'ul.sub-current' blocks ends in
\* MalformedPageError, never in the IndexError of sub_current_ul[-2].
C6_MalformedPageError ==
    (pc = "crashed" /\ error.fn = "scrape_years_urls"
        /\ error.type \notin {"UnboundLocalError", "KeyError", "AttributeError"})
        => error.type = "MalformedPageError"

\* the rows of the season table this run wrote for an entry of 'written'
TableRows(e) == files[e.label].rows

\* C3: no season table written by the run holds two rows equal in every column.
C3_NoDuplicateRows ==
    \A j \in 1..Len(SeasonEntries) :
        \A a, b \in 1..Len(TableRows(SeasonEntries[j])) :
            TableRows(SeasonEntries[j])[a] = TableRows(SeasonEntries[j])[b] => a = b

\* the names the info pages of the pipeline give, as to_csv writes them
InfoPageNames == {CsvField(ParseTeamName(p)) : p \in PipelineInfoPages}

\* C7: every row of a season table written by the run has the team name of the
\* info page under 'team' and the label of its season under 'season'.
C7_TeamAndSeasonKeys ==
    \A j \in 1..Len(SeasonEntries) :
        \A a \in 1..Len(TableRows(SeasonEntries[j])) :
            LET row == TableRows(SeasonEntries[j])[a]
            IN  /\ {"team", "season"} \subseteq DOMAIN row
                /\ row["season"] = SeasonEntries[j].label
                /\ row["team"] \in InfoPageNames

HasTable(j) ==
    \E e \in Range(written) :
        /\ e.kind = "season"
        /\ e.index = j
        /\ e.label = years_urls[j].year
        /\ e.records = e.teams
        /\ e.label \in DOMAIN files
        /\ Len(files[e.label].rows) = e.teams

\* C2 as stated: when the run completes, every season of years_urls, the first
\* included, has a season table with one record per team.
C2_EverySeasonHasTable ==
    pc = "done" => \A j \in 1..Len(years_urls) : HasTable(j)

\* C2 amended: when the run completes, every season of years_urls but the
\* first has a season table with one record per team.
C2_EverySeasonButFirstHasTable ==
    pc = "done" => \A j \in 2..Len(years_urls) : HasTable(j)

C2_Witness ==
    /\ pc = "done"
    /\ Len(years_urls) = 3
    /\ Len(SeasonEntries) = 2
    /\ \E e \in Range(written) : e.kind = "season" /\ e.teams = 2

RECURSIVE RowCount(_)
RowCount(paths) ==
    IF paths = <<>> THEN 0
    ELSE Len(FileAt(Head(paths)).rows) + RowCount(Tail(paths))

\* the rows of the files at 'paths', in order, over the columns 'cols'
RECURSIVE RowsOver(_, _)
RowsOver(cols, paths) ==
    IF paths = <<>> THEN <<>>
    ELSE LET f == FileAt(Head(paths))
         IN  [j \in 1..Len(f.rows) |->
                [c \in cols |-> IF c \in Range(f.header) THEN f.rows[j][c] ELSE Empty]]
             \o RowsOver(cols, Tail(paths))

CombineRan == pc = "done" \/ (pc = "crashed" /\ error.fn = "combine")

\* C4: once the combine phase has run over the K season tables beneath the data
\* root, the combined table is written, its rows are the rows of the K tables in
\* traversal order (sum(r_i) of them) and its columns are the union of theirs.
C4_CombinedIsSumAndUnion ==
    CombineRan =>
        /\ Len(written) > 0
        /\ written[Len(written)] = CombinedEntry
        /\ Range(read_log) = DOMAIN files
        /\ Len(combined[1].rows) = RowCount(read_log)
        /\ Range(combined[1].header) = UNION {Range(files[l].header) : l \in DOMAIN files}
        /\ combined[1].rows = RowsOver(Range(combined[1].header), read_log)

\* C9 as stated: on a re-run over a data root that holds the combined file of
\* an earlier run, the combine phase reads that file as one of its inputs.
C9_CombinedReadAgain ==
    (rerun /\ pc = "done") => CombinedName \in Range(read_log)

\* C9 amended: on such a re-run the combine phase reads the season tables of
\* the season directories only, never the combined file, and the combined
\* table it writes holds the rows of the season tables and no others.
C9_CombinedNotReadAgain ==
    (rerun /\ CombineRan) =>
        /\ CombinedName \notin Range(read_log)
        /\ Range(read_log) \subseteq DOMAIN files
        /\ pc = "done" =>
             /\ Range(read_log) = DOMAIN files
             /\ Len(combined[1].rows) = RowCount(read_log)

C9_Witness ==
    /\ rerun
    /\ pc = "done"
    /\ Len(read_log) = 2
    /\ Len(combined[1].rows) = 3

InitialCombined == IF rerun THEN PriorFolder.combined ELSE <<>>

InitialFiles == IF rerun THEN DOMAIN PriorFolder.files ELSE {}

Aborted == pc = "crashed" /\ error.fn # "combine"

\* C10: the season tables are written in the order of years_urls, each after
\* all teams of its season were scraped; the combined table is written last,
\* after the season loop; a run that aborts in the discovery or the scraping of
\* season i has written the tables of the seasons before i, which stay as
\* written, no table for season i or a later one, and not the combined file.
C10_PipelineOrder ==
    /\ \A j \in 1..Len(written) :
         IF written[j].kind = "season"
         THEN /\ written[j].index = j + 1
              /\ written[j].index < i
              /\ written[j].label = years_urls[j + 1].year
              /\ written[j].records = written[j].teams
              /\ written[j].label \in DOMAIN files
              /\ Len(files[written[j].label].rows) = written[j].teams
         ELSE /\ j = Len(written)
              /\ pc = "done"
              /\ i > Len(years_urls)
              /\ Len(SeasonEntries) = Len(written) - 1
    /\ DOMAIN files = InitialFiles \cup {SeasonEntries[j].label : j \in 1..Len(SeasonEntries)}
    /\ pc # "done" => combined = InitialCombined
    /\ pc \in {"combine", "done"} =>
         Len(SeasonEntries) = (IF Len(years_urls) > 1 THEN Len(years_urls) - 1 ELSE 0)
    /\ Aborted =>
         /\ written = SeasonEntries
         /\ Len(written) = (IF i > 1 THEN i - 2 ELSE 0)
         /\ combined = InitialCombined

C10_Witness ==
    /\ Aborted
    /\ error.fn = "scrape_team_data"
    /\ i = 3
    /\ Len(written) = 1
    /\ Len(all_teams_data) = 1

===========================================================================
